---- MODULE Spec2Model ----
(***************************************************************************)
(* Model of the routing pipeline of gioire-routing-tool:                   *)
(*   solve_by_run_id        (app/routes/api/ortools_solver.py)             *)
(*   build_ortools_payload  (app/services/ortools_request_service.py)      *)
(*   build_time_matrix      (app/services/time_matrix_service.py)          *)
(*   solve_ortools, post_solver_result_to_make                             *)
(*                          (app/services/ortools_solver_service.py)       *)
(*   process_ortools_result (app/services/ortools_result_service.py)       *)
(* and of the intake that precedes it:                                     *)
(*   main of the scraper    (app/services/hug_scraper.py) with the run     *)
(*                          table (app/services/optimization_run.py)       *)
(*   split_and_create_tasks (app/services/task_split_service.py)           *)
(*                                                                         *)
(* The external routing engine (OR-Tools) is modelled by its constraint    *)
(* contract: SolveWithParameters returns either None or ANY assignment     *)
(* that satisfies the constraints solve_ortools attached to the model.     *)
(*                                                                         *)
(* Time is counted in ticks; TicksPerHour ticks make the 3600 seconds the  *)
(* code adds and subtracts.  All time arithmetic of the code is linear, so *)
(* the tick length only fixes the resolution of the clock.                 *)
(* Python lists are 0-based, TLA+ sequences 1-based: list index i is       *)
(* sequence position i + 1.  Routing nodes and physical nodes keep the     *)
(* code's 0-based numbers.                                                 *)
(***************************************************************************)
EXTENDS Integers, Sequences, FiniteSets, TLC

VARIABLES
    payload,       \* the input payload of solve_ortools
    run_id,        \* the run_id argument of solve_ortools
    pc,            \* position of the request: "request" (before the build),
                   \* "unbuilt" (the build failed), "start" (solve_ortools
                   \* entered), "model", "returned" (solve_ortools left)
    tasks,         \* solve_ortools' local `tasks` (the output of _parse_tasks)
    solution,      \* what routing.SolveWithParameters returned
    result,        \* what solve_ortools returned (or that it raised)
    solverCalls,   \* number of SolveWithParameters invocations
    db,            \* the rows of run.routing_results, in insertion order
    persistCalls,  \* number of process_ortools_result calls made
    persistResp,   \* the value returned by each process_ortools_result call
    store,         \* the stored data build_ortools_payload reads
    response,      \* what solve_by_run_id returned (or that it raised)
    posts,         \* number of POSTs made to the webhook
    optimization_run,  \* the rows of run.optimization_run, in insertion order
    routing_tasks,     \* the rows of run.routing_tasks, in insertion order
    scraper,       \* per scraper process: its position and its locals
    split          \* the split_and_create_tasks requests: the run they name,
                   \* their number, the value the last one returned

solveVars == <<payload, run_id, pc, tasks, solution, result, solverCalls, db,
               persistCalls, persistResp, store, response, posts>>

intakeVars == <<optimization_run, routing_tasks, scraper, split>>

vars == <<solveVars, intakeVars>>

----------------------------------------------------------------------------
(* Bounds of the model *)

MaxTasks == 3
MaxVehicles == 2
MaxCap == 2
TicksPerHour == 1
MaxWindowSpread == 2
MaxPersistCalls == 2
MaxScrapers == 2
MaxRows == 2
MaxSplitCalls == 2

----------------------------------------------------------------------------
(* Python values *)

\* Python's None where the code expects an int (a window bound, a task_id)
None == -1

\* _validate_inputs returning None
ErrNone == "None"

\* a KeyError propagating out of the function
KeyError == "KeyError"

\* 3600 seconds: the buffer subtracted from the earliest window start
BaseBuffer == TicksPerHour

\* 3600 seconds: the buffer added after the latest window end
HorizonBuffer == TicksPerHour

\* 6 * 3600 seconds: the waiting slack of the Time dimension
WaitingSlack == 6 * TicksPerHour

Min(S) == CHOOSE x \in S : \A y \in S : x <= y

Max(S) == CHOOSE x \in S : \A y \in S : x >= y

Range(s) == {s[i] : i \in 1..Len(s)}

\* sorted(set(...))
RECURSIVE SortedSeq(_)
SortedSeq(S) ==
    IF S = {} THEN <<>>
    ELSE LET m == Min(S) IN <<m>> \o SortedSeq(S \ {m})

\* str(...).upper()
upper(s) ==
    CASE s = "pick" -> "PICK"
      [] s = "drop" -> "DROP"
      [] s = "foo" -> "FOO"
      [] OTHER -> s

----------------------------------------------------------------------------
(* _parse_tasks *)

HasWindow(t) == ~(t.window[1] = None \/ t.window[2] = None)

ParsedTask(t) ==
    [task_id |-> t.task_id,
     task_type |-> upper(t.task_type),
     node_index |-> t.node_index,
     user_id |-> t.user_id,
     pair_key |-> t.pair_key,
     window_start |-> t.window[1],
     window_end |-> t.window[2]]

_parse_tasks(p) ==
    LET kept == SelectSeq(p.tasks, HasWindow)
    IN  [i \in 1..Len(kept) |-> ParsedTask(kept[i])]

----------------------------------------------------------------------------
(* _relative_time_base, _task_delta *)

\* Variant of _relative_time_base: the fallback is the last bucket
_relative_time_base_last_bucket(ts, buckets) ==
    IF ts # <<>> THEN Min({ts[i].window_start : i \in 1..Len(ts)}) - BaseBuffer
    ELSE IF buckets # <<>> THEN buckets[Len(buckets)]
    ELSE 0

_relative_time_base(ts, buckets) ==
    IF ts # <<>> THEN Min({ts[i].window_start : i \in 1..Len(ts)}) - BaseBuffer
    ELSE IF buckets # <<>> THEN buckets[1]
    ELSE 0

_task_delta(task_type) ==
    IF task_type = "PICK" THEN 1
    ELSE IF task_type = "DROP" THEN -1
    ELSE 0

----------------------------------------------------------------------------
(* _validate_inputs *)

TypeCount(ts, uid, tt) ==
    Cardinality({i \in 1..Len(ts) : ts[i].user_id = uid /\ ts[i].task_type = tt})

AllKeyed(ts, uid) ==
    \A i \in 1..Len(ts) : ts[i].user_id = uid => ts[i].pair_key # ""

\* Variant of _validate_inputs: the per-user count tolerates a task_type it
\* has no counter for (a counter built with a defaulting lookup)
_validate_inputs_lenient(time_matrix, vehicles, ts) ==
    LET n == Len(time_matrix)
        OutOfRange(x) == x < 0 \/ x >= n
    IN  IF time_matrix = <<>> THEN "time_matrix missing"
        ELSE IF \E r \in 1..n : Len(time_matrix[r]) # n
            THEN "time_matrix must be NxN"
        ELSE IF vehicles = <<>> THEN "vehicles missing"
        ELSE IF ts = <<>> THEN "tasks missing"
        ELSE IF \E v \in 1..Len(vehicles) :
                    OutOfRange(vehicles[v].start_index)
                    \/ OutOfRange(vehicles[v].end_index)
            THEN "vehicle start/end index out of range"
        ELSE IF \E i \in 1..Len(ts) : OutOfRange(ts[i].node_index)
            THEN "task node_index out of range"
        ELSE IF \E i \in 1..Len(ts) :
                    /\ \/ TypeCount(ts, ts[i].user_id, "PICK") > 1
                       \/ TypeCount(ts, ts[i].user_id, "DROP") > 1
                    /\ ~AllKeyed(ts, ts[i].user_id)
            THEN "pair_key is missing"
        ELSE ErrNone

_validate_inputs(time_matrix, vehicles, ts) ==
    LET n == Len(time_matrix)
        OutOfRange(x) == x < 0 \/ x >= n
    IN  IF time_matrix = <<>> THEN "time_matrix missing"
        ELSE IF \E r \in 1..n : Len(time_matrix[r]) # n
            THEN "time_matrix must be NxN"
        ELSE IF vehicles = <<>> THEN "vehicles missing"
        ELSE IF ts = <<>> THEN "tasks missing"
        ELSE IF \E v \in 1..Len(vehicles) :
                    OutOfRange(vehicles[v].start_index)
                    \/ OutOfRange(vehicles[v].end_index)
            THEN "vehicle start/end index out of range"
        ELSE IF \E i \in 1..Len(ts) : OutOfRange(ts[i].node_index)
            THEN "task node_index out of range"
        ELSE IF \E i \in 1..Len(ts) : ts[i].task_type \notin {"PICK", "DROP"}
            THEN KeyError
        ELSE IF \E i \in 1..Len(ts) :
                    /\ \/ TypeCount(ts, ts[i].user_id, "PICK") > 1
                       \/ TypeCount(ts, ts[i].user_id, "DROP") > 1
                    /\ ~AllKeyed(ts, ts[i].user_id)
            THEN "pair_key is missing"
        ELSE ErrNone

----------------------------------------------------------------------------
(* solve_ortools: routing-node universe.  These operators read the locals  *)
(* of solve_ortools: the payload and the parsed task list `tasks`.         *)

time_matrix == payload.time_matrix

vehicles == payload.vehicles

num_vehicles == Len(vehicles)

base_time == _relative_time_base(tasks, payload.buckets)

\* Variant of depot_phys_nodes: the distinct indices in the order in which
\* the vehicles name them, starts before ends
depot_phys_nodes_unsorted ==
    LET named == [v \in 1..Len(payload.vehicles) |-> payload.vehicles[v].start_index]
                 \o [v \in 1..Len(payload.vehicles) |-> payload.vehicles[v].end_index]
        First(i) == \A j \in 1..(i - 1) : named[j] # named[i]
        firsts == {i \in 1..Len(named) : First(i)}
    IN  [k \in 1..Cardinality(firsts) |->
            named[CHOOSE i \in firsts : Cardinality({j \in firsts : j < i}) = k - 1]]

depot_phys_nodes ==
    SortedSeq({vehicles[v].start_index : v \in 1..num_vehicles}
              \cup {vehicles[v].end_index : v \in 1..num_vehicles})

depot_count == Len(depot_phys_nodes)

depot_rnode_of_phys ==
    [phys \in Range(depot_phys_nodes) |->
        (CHOOSE i \in 1..depot_count : depot_phys_nodes[i] = phys) - 1]

\* list index (0-based) of the last task carrying task_id: the task whose
\* entry survives in a dict that is filled in task order
LastIndexOf(task_id) ==
    Max({i \in 1..Len(tasks) : tasks[i].task_id = task_id}) - 1

TaskIds == {tasks[i].task_id : i \in 1..Len(tasks)}

task_rnode_of_task_id ==
    [task_id \in TaskIds |-> depot_count + LastIndexOf(task_id)]

task_id_of_rnode ==
    [rnode \in {task_rnode_of_task_id[id] : id \in TaskIds} |->
        CHOOSE id \in TaskIds : task_rnode_of_task_id[id] = rnode]

total_nodes == depot_count + Len(tasks)

routing_to_phys ==
    [rnode \in 0..(total_nodes - 1) |->
        IF rnode < depot_count THEN depot_phys_nodes[rnode + 1]
        ELSE tasks[rnode - depot_count + 1].node_index]

starts == [v \in 1..num_vehicles |-> depot_rnode_of_phys[vehicles[v].start_index]]

ends == [v \in 1..num_vehicles |-> depot_rnode_of_phys[vehicles[v].end_index]]

\* the routing nodes of the tasks
TaskRNodes == depot_count..(total_nodes - 1)

----------------------------------------------------------------------------
(* solve_ortools: the constraint model handed to the routing engine *)

time_cb(frm, to) == time_matrix[routing_to_phys[frm] + 1][routing_to_phys[to] + 1]

rel_windows ==
    [task_id \in TaskIds |->
        LET t == tasks[LastIndexOf(task_id) + 1]
        IN  <<t.window_start - base_time, t.window_end - base_time>>]

latest_end == Max({rel_windows[id][2] : id \in TaskIds})

\* Variant of horizon: a buffer of two hours
horizon_TwoHours == latest_end + 2 * HorizonBuffer

horizon == latest_end + HorizonBuffer

\* Variant of CumulRange: the window is looked up by the node's physical
\* location, so tasks at one location share the window set last
CumulRange_ByPhysNode(rnode) ==
    IF rnode \in DOMAIN task_id_of_rnode
    THEN LET last == Max({i \in 1..Len(tasks) :
                            tasks[i].node_index = routing_to_phys[rnode]})
             w == <<tasks[last].window_start - base_time,
                    tasks[last].window_end - base_time>>
         IN  <<IF w[1] > 0 THEN w[1] ELSE 0,
               IF w[2] < horizon THEN w[2] ELSE horizon>>
    ELSE <<0, horizon>>

\* the range of a routing node's Time cumul variable: [0, horizon] from
\* AddDimension, narrowed by SetRange on the nodes the window loop reaches
CumulRange(rnode) ==
    IF rnode \in DOMAIN task_id_of_rnode
    THEN LET w == rel_windows[task_id_of_rnode[rnode]]
         IN  <<IF w[1] > 0 THEN w[1] ELSE 0,
               IF w[2] < horizon THEN w[2] ELSE horizon>>
    ELSE <<0, horizon>>

task_by_rnode ==
    [rnode \in DOMAIN task_id_of_rnode |->
        tasks[LastIndexOf(task_id_of_rnode[rnode]) + 1]]

demand_cb(rnode) ==
    IF rnode \in DOMAIN task_by_rnode
    THEN _task_delta(task_by_rnode[rnode].task_type)
    ELSE 0

capacities == [v \in 1..num_vehicles |-> vehicles[v].capacity]

\* by_key[key][tt]: task_id of the last task with that key and type
LastIdWith(ts, key, tt) ==
    ts[Max({i \in 1..Len(ts) : ts[i].pair_key = key /\ ts[i].task_type = tt})].task_id

HasKeyType(ts, key, tt) ==
    \E i \in 1..Len(ts) : ts[i].pair_key = key /\ ts[i].task_type = tt

\* Variant of _build_pairs_by_pair_key: each pair is appended as
\* (drop node, pickup node)
_build_pairs_by_pair_key_swapped(ts, tasknode_of_task_id) ==
    LET keys == {ts[i].pair_key : i \in {j \in 1..Len(ts) :
                    ts[j].pair_key # "" /\ ts[j].task_type \in {"PICK", "DROP"}}}
        complete == {k \in keys : HasKeyType(ts, k, "PICK") /\ HasKeyType(ts, k, "DROP")}
    IN  {<<tasknode_of_task_id[LastIdWith(ts, k, "DROP")],
           tasknode_of_task_id[LastIdWith(ts, k, "PICK")]>> : k \in complete}

_build_pairs_by_pair_key(ts, tasknode_of_task_id) ==
    LET keys == {ts[i].pair_key : i \in {j \in 1..Len(ts) :
                    ts[j].pair_key # "" /\ ts[j].task_type \in {"PICK", "DROP"}}}
        complete == {k \in keys : HasKeyType(ts, k, "PICK") /\ HasKeyType(ts, k, "DROP")}
        present == {k \in complete :
                        /\ LastIdWith(ts, k, "PICK") \in DOMAIN tasknode_of_task_id
                        /\ LastIdWith(ts, k, "DROP") \in DOMAIN tasknode_of_task_id}
    IN  {<<tasknode_of_task_id[LastIdWith(ts, k, "PICK")],
           tasknode_of_task_id[LastIdWith(ts, k, "DROP")]>> : k \in present}

pairs == _build_pairs_by_pair_key(tasks, task_rnode_of_task_id)

----------------------------------------------------------------------------
(* The routing engine: every assignment that satisfies the model *)

Perms(S) ==
    {p \in [1..Cardinality(S) -> S] :
        \A i, j \in 1..Cardinality(S) : p[i] = p[j] => i = j}

\* every way to visit each task node exactly once: no disjunction is added,
\* so every routing node is mandatory
RouteAssignments ==
    {[v \in 1..num_vehicles |->
        LET OnV(rnode) == a[rnode] = v IN SelectSeq(p, OnV)] :
            p \in Perms(TaskRNodes), a \in [TaskRNodes -> 1..num_vehicles]}

\* Capacity cumul after the first j nodes of a route
RECURSIVE CumulDemand(_, _)
CumulDemand(route, j) ==
    IF j = 0 THEN 0
    ELSE CumulDemand(route, j - 1) + demand_cb(route[j])

\* Variant of CapacityOk: only the upper bound of the cumul is enforced
CapacityOk_UpperOnly(route, capacity) ==
    \A j \in 0..Len(route) : CumulDemand(route, j) <= capacity

\* Variant of CapacityOk: only the lower bound of the cumul is enforced
CapacityOk_LowerOnly(route, capacity) ==
    \A j \in 0..Len(route) : CumulDemand(route, j) >= 0

\* AddDimensionWithVehicleCapacity(demand, slack 0, capacities, start at 0):
\* every cumul of the vehicle's path lies in [0, capacity]
CapacityOk(route, capacity) ==
    \A j \in 0..Len(route) :
        /\ CumulDemand(route, j) >= 0
        /\ CumulDemand(route, j) <= capacity

PosIn(route, rnode) == CHOOSE i \in 1..Len(route) : route[i] = rnode

\* AddPickupAndDelivery(p, d) with VehicleVar(p) == VehicleVar(d): both nodes
\* on one vehicle, the pickup earlier on its path than the delivery
PairOk(routes, pr) ==
    \E v \in 1..num_vehicles :
        /\ pr[1] \in Range(routes[v])
        /\ pr[2] \in Range(routes[v])
        /\ PosIn(routes[v], pr[1]) < PosIn(routes[v], pr[2])

\* the routing nodes on vehicle v's path, start and end included
PathOf(routes, v) == <<starts[v]>> \o routes[v] \o <<ends[v]>>

\* Variant of PathTimes: waiting on an arc has no ceiling
RECURSIVE PathTimes_UnboundedSlack(_, _, _)
PathTimes_UnboundedSlack(path, i, prevT) ==
    IF i > Len(path) THEN {<<>>}
    ELSE LET r == CumulRange(path[i])
             tr == time_cb(path[i - 1], path[i])
             lo == IF r[1] > prevT + tr THEN r[1] ELSE prevT + tr
         IN  UNION {{<<t>> \o rest : rest \in PathTimes_UnboundedSlack(path, i + 1, t)} :
                        t \in lo..r[2]}

\* Time cumuls for positions i..Len(path), the node before having cumul prevT:
\* cumul(next) = cumul + transit + slack, 0 <= slack <= WaitingSlack
RECURSIVE PathTimes(_, _, _)
PathTimes(path, i, prevT) ==
    IF i > Len(path) THEN {<<>>}
    ELSE LET r == CumulRange(path[i])
             tr == time_cb(path[i - 1], path[i])
             lo == IF r[1] > prevT + tr THEN r[1] ELSE prevT + tr
             hi == IF r[2] < prevT + tr + WaitingSlack THEN r[2]
                   ELSE prevT + tr + WaitingSlack
         IN  UNION {{<<t>> \o rest : rest \in PathTimes(path, i + 1, t)} :
                        t \in lo..hi}

VehicleTimes(routes, v) ==
    LET path == PathOf(routes, v)
        r == CumulRange(path[1])
    IN  UNION {{<<t>> \o rest : rest \in PathTimes(path, 2, t)} : t \in r[1]..r[2]}

\* The cumuls the assignment gives vehicle v.  For a vehicle without a task
\* the assignment must exist, but its values are not recorded: the one the
\* code reads (line 297) goes into a stop list that line 341 drops.
RecordedTimes(routes, v) ==
    IF routes[v] # <<>> THEN VehicleTimes(routes, v)
    ELSE IF VehicleTimes(routes, v) # {} THEN {<<>>}
    ELSE {}

RECURSIVE AllTimes(_, _)
AllTimes(routes, v) ==
    IF v = 0 THEN {<<>>}
    ELSE {Append(f, t) : f \in AllTimes(routes, v - 1), t \in RecordedTimes(routes, v)}

\* the Time cumul of a task node in an assignment
CumulAt(routes, times, rnode) ==
    LET v == CHOOSE w \in 1..num_vehicles : rnode \in Range(routes[w])
    IN  times[v][PosIn(routes[v], rnode) + 1]

\* solver.Add(CumulVar(p) <= CumulVar(d))
PairTimeOk(routes, times, pr) ==
    CumulAt(routes, times, pr[1]) <= CumulAt(routes, times, pr[2])

Solutions ==
    LET feasible == {r \in RouteAssignments :
                        /\ \A v \in 1..num_vehicles : CapacityOk(r[v], capacities[v])
                        /\ \A pr \in pairs : PairOk(r, pr)}
    IN  UNION {{[found |-> TRUE, routes |-> r, times |-> t] :
                    t \in {x \in AllTimes(r, num_vehicles) :
                            \A pr \in pairs : PairTimeOk(r, x, pr)}} :
                r \in feasible}

NoSolution == [found |-> FALSE]

----------------------------------------------------------------------------
(* solve_ortools: building the output from the solution *)

tasks_by_id == [task_id \in TaskIds |-> tasks[LastIndexOf(task_id) + 1]]

\* the task the walk finds at a routing node of the path
TaskAt(rnode) == tasks_by_id[task_id_of_rnode[rnode]]

\* Variant of Passengers: a stop reports the count before its own task
RECURSIVE Passengers_BeforeStop(_, _)
Passengers_BeforeStop(route, j) ==
    IF j <= 1 THEN 0
    ELSE Passengers_BeforeStop(route, j - 1) + _task_delta(TaskAt(route[j - 1]).task_type)

\* Variant of Passengers: a DROP leaves the counter as it is
RECURSIVE Passengers_IgnoresDrops(_, _)
Passengers_IgnoresDrops(route, j) ==
    IF j = 0 THEN 0
    ELSE Passengers_IgnoresDrops(route, j - 1)
            + (IF TaskAt(route[j]).task_type = "PICK" THEN 1 ELSE 0)

\* current_passengers after the first j TASK stops of a route
RECURSIVE Passengers(_, _)
Passengers(route, j) ==
    IF j = 0 THEN 0
    ELSE Passengers(route, j - 1) + _task_delta(TaskAt(route[j]).task_type)

\* Variant of Stop: the timestamps are the solver's relative values
Stop_Relative(seq, event_type, node_index, task_id, t, passengers) ==
    [sequence |-> seq,
     event_type |-> event_type,
     node_index |-> node_index,
     task_id |-> task_id,
     arrival_at |-> t,
     departure_at |-> t,
     passengers |-> passengers]

Stop(seq, event_type, node_index, task_id, t, passengers) ==
    [sequence |-> seq,
     event_type |-> event_type,
     node_index |-> node_index,
     task_id |-> task_id,
     arrival_at |-> base_time + t,
     departure_at |-> base_time + t,
     passengers |-> passengers]

\* Variant of DepartStop: the task_id set at line 303 is never replaced
DepartStop_NotBackfilled(sol, v) ==
    Stop(0, "DEPART", routing_to_phys[starts[v]], None, sol.times[v][1], 0)

DepartStop(sol, v) ==
    Stop(0, "DEPART", routing_to_phys[starts[v]],
         task_id_of_rnode[sol.routes[v][1]], sol.times[v][1], 0)

TaskStop(sol, v, j) ==
    LET rnode == sol.routes[v][j]
    IN  Stop(j, "TASK", TaskAt(rnode).node_index, task_id_of_rnode[rnode],
             sol.times[v][j + 1], Passengers(sol.routes[v], j))

\* Variant of ArriveStop: seq is not advanced before the ARRIVE stop
ArriveStop_SeqNotAdvanced(sol, v) ==
    LET m == Len(sol.routes[v])
    IN  Stop(m, "ARRIVE", routing_to_phys[ends[v]],
             task_id_of_rnode[sol.routes[v][m]], sol.times[v][m + 2],
             Passengers(sol.routes[v], m))

ArriveStop(sol, v) ==
    LET m == Len(sol.routes[v])
    IN  Stop(m + 1, "ARRIVE", routing_to_phys[ends[v]],
             task_id_of_rnode[sol.routes[v][m]], sol.times[v][m + 2],
             Passengers(sol.routes[v], m))

Stops(sol, v) ==
    LET m == Len(sol.routes[v])
    IN  <<DepartStop(sol, v)>>
        \o [j \in 1..m |-> TaskStop(sol, v, j)]
        \o <<ArriveStop(sol, v)>>

\* routes_out after the first v vehicles: a vehicle without a task adds nothing
RECURSIVE RoutesOut(_, _)
RoutesOut(sol, v) ==
    IF v = 0 THEN <<>>
    ELSE IF sol.routes[v] = <<>> THEN RoutesOut(sol, v - 1)
    ELSE Append(RoutesOut(sol, v - 1),
                [vehicle_id |-> vehicles[v].vehicle_id, stops |-> Stops(sol, v)])

ErrorResult(message) == [status |-> "error", message |-> message]

\* an exception leaving solve_ortools: no value is returned
RaisedResult(exception) == [status |-> "raised", message |-> exception]

\* a task node that is not a key of task_id_of_rnode raises KeyError when the
\* walk reaches it
BuildOutput(sol) ==
    IF \E v \in 1..num_vehicles : \E j \in 1..Len(sol.routes[v]) :
            sol.routes[v][j] \notin DOMAIN task_id_of_rnode
    THEN RaisedResult(KeyError)
    ELSE [status |-> "ok",
          run_id |-> run_id,
          base_time |-> base_time,
          routes |-> RoutesOut(sol, num_vehicles)]

----------------------------------------------------------------------------
(* process_ortools_result *)

\* Python truthiness of an int-or-None value: `not x` holds for None and 0
Truthy(x) == x # None /\ x # 0

StopInserted(stop) ==
    /\ stop.sequence # None
    /\ stop.event_type # ""
    /\ Truthy(stop.arrival_at)
    /\ Truthy(stop.task_id)

Row(rid, vehicle_id, stop) ==
    [run_id |-> rid,
     vehicle_id |-> vehicle_id,
     task_id |-> stop.task_id,
     sequence |-> stop.sequence,
     arrival_at |-> stop.arrival_at,
     departure_at |-> stop.departure_at,
     passengers |-> stop.passengers,
     event_type |-> stop.event_type]

IsTaskStop(stop) == stop.event_type = "TASK" /\ Truthy(stop.task_id)

\* Variant of RowsOfRoute: only the TASK stops become rows
RowsOfRoute_TaskStopsOnly(rid, route) ==
    IF ~Truthy(route.vehicle_id) \/ route.stops = <<>> THEN <<>>
    ELSE LET kept == SelectSeq(route.stops, IsTaskStop)
         IN  [i \in 1..Len(kept) |-> Row(rid, route.vehicle_id, kept[i])]

RowsOfRoute(rid, route) ==
    IF ~Truthy(route.vehicle_id) \/ route.stops = <<>> THEN <<>>
    ELSE IF SelectSeq(route.stops, IsTaskStop) = <<>> THEN <<>>
    ELSE LET kept == SelectSeq(route.stops, StopInserted)
         IN  [i \in 1..Len(kept) |-> Row(rid, route.vehicle_id, kept[i])]

\* insert_rows after the first k routes of the payload
RECURSIVE InsertRows(_, _)
InsertRows(p, k) ==
    IF k = 0 THEN <<>>
    ELSE InsertRows(p, k - 1) \o RowsOfRoute(p.run_id, p.routes[k])

\* the table after the call: the code only inserts
StoreRows(table, rows) == table \o rows

process_ortools_result_rows(p) ==
    IF ~Truthy(p.run_id) \/ p.routes = <<>> THEN <<>>
    ELSE InsertRows(p, Len(p.routes))

process_ortools_result_response(p) ==
    IF ~Truthy(p.run_id) \/ p.routes = <<>>
    THEN ErrorResult("Invalid OR-Tools result payload (missing run_id or routes)")
    ELSE IF process_ortools_result_rows(p) = <<>>
    THEN ErrorResult("No valid routing_results rows to insert")
    ELSE [status |-> "ok", inserted |-> Len(process_ortools_result_rows(p))]

----------------------------------------------------------------------------
(* build_time_matrix.  `store` holds what the queries of the build read:   *)
(* the run row, the routing_tasks rows of the run, the vehicles of the     *)
(* run's facility, the depots, the travel_times rows.  A stored timestamp  *)
(* is an hour and a tick within the hour.                                  *)

\* datetime.fromisoformat(...).timestamp()
timestamp(ts) == ts.hour * TicksPerHour + ts.tick

\* int(epoch // 3600) * 3600
_parse_bucket(ts) == (timestamp(ts) \div TicksPerHour) * TicksPerHour

\* .in_("origin_node_id", nodes).in_("dest_node_id", nodes)
TravelTimesAmong(rows, nodes) ==
    {r \in rows : r.origin_node_id \in nodes /\ r.dest_node_id \in nodes}

\* lines 166-186: known durations, 0 on the diagonal, None for a missing
\* pair; the keys str(node_id) are written as the node ids themselves
StructuredMatrix(data, nodes) ==
    [o \in nodes |-> [d \in nodes |->
        IF o = d THEN 0
        ELSE IF \E r \in data : r.origin_node_id = o /\ r.dest_node_id = d
        THEN (CHOOSE r \in data : r.origin_node_id = o /\ r.dest_node_id = d).duration
        ELSE None]]

TimeMatrixResult(status, matrix, node_ids, buckets) ==
    [status |-> status, matrix |-> matrix, node_ids |-> node_ids, buckets |-> buckets]

build_time_matrix(st) ==
    LET rows == st.tasks
        nodes == {rows[i].node_id : i \in 1..Len(rows)} \ {None}
        buckets == {_parse_bucket(rows[i].window_start) : i \in 1..Len(rows)}
        cached == TravelTimesAmong(st.travel_times, nodes)
        rebuilt == TravelTimesAmong(st.rebuilt_travel_times, nodes)
    IN  IF rows = <<>> THEN TimeMatrixResult("empty", <<>>, <<>>, <<>>)
        ELSE IF nodes = {} THEN TimeMatrixResult("empty", <<>>, <<>>, <<>>)
        ELSE IF buckets = {} THEN TimeMatrixResult("empty", <<>>, SortedSeq(nodes), <<>>)
        ELSE IF cached # {}
            THEN TimeMatrixResult("ok", StructuredMatrix(cached, nodes),
                                  SortedSeq(nodes), SortedSeq(buckets))
        ELSE IF ~st.nodes_known
            THEN TimeMatrixResult("error", <<>>, SortedSeq(nodes), SortedSeq(buckets))
        ELSE IF rebuilt = {}
            THEN TimeMatrixResult("miss", <<>>, SortedSeq(nodes), SortedSeq(buckets))
        ELSE TimeMatrixResult("ok", StructuredMatrix(rebuilt, nodes),
                              SortedSeq(nodes), SortedSeq(buckets))

----------------------------------------------------------------------------
(* build_ortools_payload *)

\* node_index[nid]: the position of nid in node_ids, 0-based
IndexIn(node_ids, nid) == (CHOOSE i \in 1..Len(node_ids) : node_ids[i] = nid) - 1

\* lines 116-122: raw_matrix[str(origin_id)][str(dest_id)] for every pair
compressed_matrix(raw_matrix, node_ids) ==
    [i \in 1..Len(node_ids) |-> [j \in 1..Len(node_ids) |->
        raw_matrix[node_ids[i]][node_ids[j]]]]

\* lines 124-148
formatted_vehicles(st, node_ids) ==
    LET HasDepotNode(v) ==
            /\ v.depot_id \in DOMAIN st.depots
            /\ st.depots[v.depot_id] \in Range(node_ids)
        kept == SelectSeq(st.vehicles, HasDepotNode)
    IN  [k \in 1..Len(kept) |->
            [vehicle_id |-> kept[k].id,
             capacity |-> kept[k].seats,
             start_index |-> IndexIn(node_ids, st.depots[kept[k].depot_id]),
             end_index |-> IndexIn(node_ids, st.depots[kept[k].depot_id])]]

\* lines 153-178
formatted_tasks(st, node_ids) ==
    LET HasNode(t) == t.node_id \in Range(node_ids)
        kept == SelectSeq(st.tasks, HasNode)
    IN  [k \in 1..Len(kept) |->
            [task_id |-> kept[k].id,
             task_type |-> kept[k].task_type,
             user_id |-> kept[k].user_id,
             pair_key |-> kept[k].pair_key,
             node_index |-> IndexIn(node_ids, kept[k].node_id),
             window |-> <<timestamp(kept[k].window_start),
                          timestamp(kept[k].window_end)>>]]

build_ortools_payload(st) ==
    IF ~st.run_found THEN ErrorResult("run_id not found")
    ELSE IF st.tasks = <<>> THEN ErrorResult("no routing tasks")
    ELSE LET tm_result == build_time_matrix(st)
             node_ids == tm_result.node_ids
         IN  IF tm_result.status \notin {"ok", "miss"}
             THEN ErrorResult("time matrix unavailable")
             ELSE IF \E i \in 1..Len(node_ids) : node_ids[i] \notin DOMAIN tm_result.matrix
             THEN RaisedResult(KeyError)
             ELSE IF formatted_vehicles(st, node_ids) = <<>>
             THEN ErrorResult("no vehicles available")
             ELSE [status |-> "ok",
                   payload |->
                        [time_matrix |-> compressed_matrix(tm_result.matrix, node_ids),
                         vehicles |-> formatted_vehicles(st, node_ids),
                         tasks |-> formatted_tasks(st, node_ids),
                         buckets |-> tm_result.buckets]]

----------------------------------------------------------------------------
(* Inputs *)


\* the run the requests are about
RunIds == {5}

\* earliest absolute time a window bound takes
DayStart == 2 * TicksPerHour

WindowTimes == DayStart..(DayStart + MaxWindowSpread)

UnitMatrix == <<<<0, 1, 1>>, <<1, 0, 1>>, <<1, 1, 0>>>>

SkewMatrix == <<<<0, 0, 1>>, <<1, 0, 0>>, <<0, 2, 0>>>>

\* nodes 1 and 2 lie next to each other, an hour's drive from the depot
NearMatrix ==
    <<<<0, TicksPerHour, TicksPerHour>>, <<TicksPerHour, 0, 0>>, <<TicksPerHour, 0, 0>>>>

NonSquareMatrix == <<<<0, 1, 1>>, <<1, 0, 1>>>>

\* physical nodes of a well-formed time matrix: 0 .. NumNodes - 1
NumNodes == Len(UnitMatrix)

Vehicle(id, capacity, start_index, end_index) ==
    [vehicle_id |-> id, capacity |-> capacity,
     start_index |-> start_index, end_index |-> end_index]

RawTask(ty, ni, u, k, w) ==
    [task_type |-> ty, node_index |-> ni, user_id |-> u, pair_key |-> k, window |-> w]

\* task lists of the given lengths over a catalogue, task_id given by ids
TaskLists(catalogue, lengths, ids) ==
    UNION {{[i \in 1..n |->
                [task_id |-> ids[i], task_type |-> f[i].task_type,
                 node_index |-> f[i].node_index, user_id |-> f[i].user_id,
                 pair_key |-> f[i].pair_key, window |-> f[i].window]] :
            f \in [1..n -> catalogue]} : n \in lengths}

OwnId == [i \in 1..MaxTasks |-> i]

\* the first two tasks carry the same task_id
SharedId == [i \in 1..MaxTasks |-> IF i <= 2 THEN 1 ELSE i - 1]

Payload(tm, vs, ts) ==
    [time_matrix |-> tm, vehicles |-> vs, tasks |-> ts, buckets |-> <<>>]

\* payloads around the input checks: malformed matrices, vehicles and tasks
\* a task has a type that is no PICK or DROP, a node outside the matrix, a
\* window that misses a bound, or a missing bound next to one of the former
CheckCatalogue ==
    {RawTask(ty, 1, 1, "", <<DayStart, DayStart + 1>>) : ty \in {"PICK", "drop", "FOO"}}
    \cup {RawTask("PICK", NumNodes, 1, "", <<DayStart, DayStart + 1>>)}
    \cup {RawTask(x[1], x[2], 1, "", w) :
            x \in {<<"PICK", 1>>, <<"PICK", NumNodes>>, <<"FOO", 1>>},
            w \in {<<None, DayStart>>, <<DayStart, None>>}}

CheckPayloads ==
    {Payload(tm, vs, ts) :
        tm \in {<<>>, NonSquareMatrix, UnitMatrix},
        vs \in {<<>>, <<Vehicle(1, 1, 0, 0)>>, <<Vehicle(1, 1, NumNodes, 0)>>,
                <<Vehicle(1, 1, 0, -1)>>},
        ts \in TaskLists(CheckCatalogue, 0..(MaxTasks - 1), OwnId)}

DistinctUsers(ts) == [i \in 1..Len(ts) |-> [ts[i] EXCEPT !.user_id = i]]

\* payloads around pairing and capacity: pickups at node 1, drop-offs at
\* node 2, all at one time of day, with NearMatrix every visiting order of
\* the tasks is in time
PairCatalogue ==
    {RawTask(ty, IF ty = "PICK" THEN 1 ELSE 2, 1, k, <<DayStart, DayStart>>) :
        ty \in {"PICK", "DROP"}, k \in {"", "A"}}

Fleet(n, capacity) == [v \in 1..n |-> Vehicle(v, capacity, 0, 0)]

\* one vehicle, the tasks of one user or each task of a user of its own
PairPayloads ==
    {Payload(NearMatrix, Fleet(1, MaxCap), us) :
        us \in UNION {{ts, DistinctUsers(ts)} :
                        ts \in TaskLists(PairCatalogue, 1..MaxTasks, OwnId)}}

\* several vehicles
FleetPayloads ==
    {Payload(NearMatrix, Fleet(n, MaxCap), DistinctUsers(ts)) :
        n \in 2..MaxVehicles,
        ts \in TaskLists(PairCatalogue, 1..3, OwnId)}

\* one vehicle with fewer seats than MaxCap, unpaired tasks
CapacityPayloads ==
    {Payload(NearMatrix, Fleet(1, capacity), DistinctUsers(ts)) :
        capacity \in 1..(MaxCap - 1),
        ts \in TaskLists({t \in PairCatalogue : t.pair_key = ""}, 1..MaxTasks, OwnId)}

\* payloads in which two task records carry one task_id
SharedIdPayloads ==
    {Payload(NearMatrix, Fleet(1, MaxCap), DistinctUsers(ts)) :
        ts \in TaskLists(PairCatalogue, 2..MaxTasks, SharedId)}

\* payloads around time windows: pickups sharing physical nodes, start and
\* end depots that differ
WindowCatalogue ==
    {RawTask("PICK", ni, 1, "", w) :
        ni \in {1, 2},
        w \in {x \in WindowTimes \X WindowTimes : x[1] <= x[2] /\ x[2] - x[1] <= 1}}

WindowPayloads ==
    {Payload(SkewMatrix, <<Vehicle(1, MaxCap, d[1], d[2])>>, DistinctUsers(ts)) :
        d \in {<<0, 0>>, <<0, 1>>, <<1, 0>>},
        ts \in TaskLists(WindowCatalogue, 1..2, OwnId)}

\* payloads around waiting: two pickups an hour's tick apart on the road,
\* the second window opening exactly at, or one tick past, the longest wait
WaitPayloads ==
    {Payload(UnitMatrix, Fleet(1, MaxCap),
             <<[task_id |-> 1, task_type |-> "PICK", node_index |-> 1, user_id |-> 1,
                pair_key |-> "", window |-> <<DayStart, DayStart>>],
               [task_id |-> 2, task_type |-> "PICK", node_index |-> 2, user_id |-> 2,
                pair_key |-> "", window |-> <<DayStart + 1 + WaitingSlack + g,
                                             DayStart + 1 + WaitingSlack + g>>]>>) :
        g \in {0, 1}}

\* the paired-trip scenario, times in units of 100 seconds: one vehicle of
\* capacity 4 at node 0, a PICK at node 1 within [1000, 1100] and a DROP at
\* node 2 within [1100, 1300] on one pair key, every leg 100 seconds
ScenarioPayload ==
    Payload(UnitMatrix, <<Vehicle(1, 4, 0, 0)>>,
            <<[task_id |-> 1, task_type |-> "PICK", node_index |-> 1, user_id |-> 1,
               pair_key |-> "A", window |-> <<10, 11>>],
              [task_id |-> 2, task_type |-> "DROP", node_index |-> 2, user_id |-> 1,
               pair_key |-> "A", window |-> <<11, 13>>]>>)

ScenarioPayloads == {ScenarioPayload}

Payloads ==
    CheckPayloads \cup PairPayloads \cup FleetPayloads \cup SharedIdPayloads
        \cup WindowPayloads \cup ScenarioPayloads \cup CapacityPayloads
        \cup WaitPayloads


\* payloads around the time base: no, one or two tasks, and the hourly
\* buckets in the ascending order in which build_time_matrix lists them
BucketLists ==
    {SortedSeq(B) : B \in {X \in SUBSET {h * TicksPerHour : h \in 1..3} :
                                Cardinality(X) <= 2}}

TimeBaseCatalogue ==
    {RawTask("PICK", 1, 1, "", <<t, t>>) : t \in {DayStart, DayStart + 1}}

TimeBasePayloads ==
    {[time_matrix |-> SkewMatrix, vehicles |-> Fleet(1, MaxCap),
      tasks |-> DistinctUsers(ts), buckets |-> bs] :
        ts \in TaskLists(TimeBaseCatalogue, 0..2, OwnId),
        bs \in BucketLists}

\* stored data of a run: rows of run.routing_tasks, core.vehicles,
\* core.depots and core.travel_times; the facility is node 10, a home node 11
StoredTime(h, r) == [hour |-> h, tick |-> r]

TaskRow(ty, node_id, k) ==
    [task_type |-> ty, user_id |-> 1, node_id |-> node_id, pair_key |-> k,
     window_start |-> StoredTime(2, TicksPerHour - 1),
     window_end |-> StoredTime(3, TicksPerHour - 1)]

TaskRowCatalogue ==
    {TaskRow("PICK", 11, "A"), TaskRow("DROP", 10, "A"), TaskRow("FOO", 10, ""),
     TaskRow("PICK", None, "")}

\* .order("id"): the rows come in the order of their ids
TaskRows ==
    UNION {{[i \in 1..n |->
                [id |-> i, task_type |-> f[i].task_type, user_id |-> f[i].user_id,
                 node_id |-> f[i].node_id, pair_key |-> f[i].pair_key,
                 window_start |-> f[i].window_start, window_end |-> f[i].window_end]] :
            f \in [1..n -> TaskRowCatalogue]} : n \in 0..2}

VehicleRow(id, seats, depot_id) == [id |-> id, seats |-> seats, depot_id |-> depot_id]

Leg(o, d) == [origin_node_id |-> o, dest_node_id |-> d, duration |-> 1]

\* what the travel_times queries find: before the rebuild, after it, and
\* whether core.nodes knows the nodes
TravelCases ==
    {<<{Leg(10, 11), Leg(11, 10)}, {}, TRUE>>,
     <<{Leg(11, 10)}, {}, TRUE>>,
     <<{}, {}, FALSE>>,
     <<{}, {}, TRUE>>,
     <<{}, {Leg(10, 11), Leg(11, 10)}, TRUE>>}

Stores ==
    {[run_found |-> found, tasks |-> rows, vehicles |-> vs,
      depots |-> [d \in {1} |-> 10],
      travel_times |-> tc[1], rebuilt_travel_times |-> tc[2], nodes_known |-> tc[3]] :
        found \in BOOLEAN,
        rows \in TaskRows,
        vs \in {<<>>, <<VehicleRow(1, MaxCap, 1)>>, <<VehicleRow(1, MaxCap, 2)>>},
        tc \in TravelCases}

\* solve_ortools handed a payload as it is: nothing is read from the store
NoStore ==
    [run_found |-> FALSE, tasks |-> <<>>, vehicles |-> <<>>, depots |-> <<>>,
     travel_times |-> {}, rebuilt_travel_times |-> {}, nodes_known |-> FALSE]

\* no payload is built yet
NoPayload == Payload(<<>>, <<>>, <<>>)

----------------------------------------------------------------------------
(* The state machine *)

NoResponse == [status |-> "none"]

\* no scraper runs and no split is requested
NoIntake ==
    /\ optimization_run = <<>>
    /\ routing_tasks = <<>>
    /\ scraper = <<>>
    /\ split = [run_id |-> None, calls |-> 0, returned |-> NoResponse]

\* a request to solve_by_run_id for a stored run, or solve_by_run_id at
\* line 13 with a payload in hand
Init ==
    /\ \/ /\ store \in Stores
          /\ payload = NoPayload
          /\ pc = "request"
       \/ /\ store = NoStore
          /\ payload \in Payloads
          /\ pc = "start"
    /\ run_id \in RunIds
    /\ tasks = <<>>
    /\ solution = NoSolution
    /\ result = [status |-> "none"]
    /\ solverCalls = 0
    /\ db = <<>>
    /\ persistCalls = 0
    /\ persistResp = <<>>
    /\ response = NoResponse
    /\ posts = 0
    /\ NoIntake

\* solve_by_run_id, lines 9-13: the payload is built
BuildPayload ==
    /\ pc = "request"
    /\ build_ortools_payload(store).status = "ok"
    /\ payload' = build_ortools_payload(store).payload
    /\ pc' = "start"
    /\ UNCHANGED intakeVars
    /\ UNCHANGED <<run_id, tasks, solution, result, solverCalls, db, persistCalls,
                   persistResp, store, response, posts>>

\* solve_by_run_id, lines 9-11: the build result is returned, or the
\* exception of the build leaves the endpoint
BuildFails ==
    /\ pc = "request"
    /\ build_ortools_payload(store).status # "ok"
    /\ response' = build_ortools_payload(store)
    /\ pc' = "unbuilt"
    /\ UNCHANGED intakeVars
    /\ UNCHANGED <<payload, run_id, tasks, solution, result, solverCalls, db,
                   persistCalls, persistResp, store, posts>>

\* the value _validate_inputs returns for the request's payload
err == _validate_inputs(payload.time_matrix, payload.vehicles, _parse_tasks(payload))

\* solve_ortools, lines 153-159: a validation error is returned, and
\* solve_by_run_id returns it (line 22)
ReturnValidationError ==
    /\ pc = "start"
    /\ err \notin {ErrNone, KeyError}
    /\ tasks' = _parse_tasks(payload)
    /\ result' = ErrorResult(err)
    /\ response' = ErrorResult(err)
    /\ pc' = "returned"
    /\ UNCHANGED intakeVars
    /\ UNCHANGED <<payload, run_id, solution, solverCalls, db, persistCalls,
                   persistResp, store, posts>>

\* solve_ortools, line 157: _validate_inputs raises on a task_type that is
\* no key of the per-user counter
RaiseInValidation ==
    /\ pc = "start"
    /\ err = KeyError
    /\ tasks' = _parse_tasks(payload)
    /\ result' = RaisedResult(KeyError)
    /\ response' = RaisedResult(KeyError)
    /\ pc' = "returned"
    /\ UNCHANGED intakeVars
    /\ UNCHANGED <<payload, run_id, solution, solverCalls, db, persistCalls,
                   persistResp, store, posts>>

\* solve_ortools, lines 153-273: the input passes and the model is assembled
AssembleModel ==
    /\ pc = "start"
    /\ err = ErrNone
    /\ tasks' = _parse_tasks(payload)
    /\ pc' = "model"
    /\ UNCHANGED intakeVars
    /\ UNCHANGED <<payload, run_id, solution, result, solverCalls, db, persistCalls,
                   persistResp, store, response, posts>>

\* a travel duration the transit callback cannot convert: int(None)
MissingDuration ==
    \E frm, to \in 0..(total_nodes - 1) : time_cb(frm, to) = None

\* solve_ortools, lines 200-205 under line 275: the transit callback raises
\* TypeError on a None duration, the solve returns nothing
RaiseInCallback ==
    /\ pc = "model"
    /\ MissingDuration
    /\ solverCalls' = solverCalls + 1
    /\ solution' = [found |-> FALSE, raised |-> "TypeError"]
    /\ result' = RaisedResult("TypeError")
    /\ response' = RaisedResult("TypeError")
    /\ pc' = "returned"
    /\ UNCHANGED intakeVars
    /\ UNCHANGED <<payload, run_id, tasks, db, persistCalls, persistResp, store, posts>>

\* Variant of SolveNoSolution: a search that found nothing is run once more
SolveNoSolution_Retry ==
    /\ pc = "model"
    /\ ~MissingDuration
    /\ solverCalls' = solverCalls + 1
    /\ solution' = NoSolution
    /\ IF solverCalls = 0
       THEN UNCHANGED <<pc, result, response>>
       ELSE /\ result' = ErrorResult("no feasible solution")
            /\ response' = ErrorResult("no feasible solution")
            /\ pc' = "returned"
    /\ UNCHANGED intakeVars
    /\ UNCHANGED <<payload, run_id, tasks, db, persistCalls, persistResp, store, posts>>

\* solve_ortools, lines 275-277: the engine returns no solution, and
\* solve_by_run_id returns the error (line 22)
SolveNoSolution ==
    /\ pc = "model"
    /\ ~MissingDuration
    /\ solverCalls' = solverCalls + 1
    /\ solution' = NoSolution
    /\ result' = ErrorResult("no feasible solution")
    /\ response' = ErrorResult("no feasible solution")
    /\ pc' = "returned"
    /\ UNCHANGED intakeVars
    /\ UNCHANGED <<payload, run_id, tasks, db, persistCalls, persistResp, store, posts>>

\* solve_ortools, lines 275-379: the engine returns a solution and the output
\* is built from it; an exception of the walk leaves solve_by_run_id
SolveAndBuildOutput ==
    /\ pc = "model"
    /\ ~MissingDuration
    /\ \E sol \in Solutions :
        /\ solution' = sol
        /\ result' = BuildOutput(sol)
        /\ response' = IF BuildOutput(sol).status = "ok" THEN response
                       ELSE BuildOutput(sol)
    /\ solverCalls' = solverCalls + 1
    /\ pc' = "returned"
    /\ UNCHANGED intakeVars
    /\ UNCHANGED <<payload, run_id, tasks, db, persistCalls, persistResp, store, posts>>

\* post_solver_result_to_make: the number of POSTs made and the message of
\* the exception raised ("" when the call returns)
post_solver_result_to_make(url_set, transport_ok) ==
    IF ~url_set
    THEN [posts |-> 0, raised |-> "MAKE_OR_TOOLS_RESULT_WEBHOOK is not set"]
    ELSE IF transport_ok THEN [posts |-> 1, raised |-> ""]
    ELSE [posts |-> 1, raised |-> "Make webhook request timed out"]

\* Variant of WithWarning: the failure of the relay becomes the status
WithWarning_AsError(r, message) ==
    [status |-> "error", run_id |-> r.run_id, base_time |-> r.base_time,
     routes |-> r.routes, make_webhook_warning |-> message]

\* result["make_webhook_warning"] = str(e)
WithWarning(r, message) ==
    [status |-> r.status, run_id |-> r.run_id, base_time |-> r.base_time,
     routes |-> r.routes, make_webhook_warning |-> message]

\* Variant of RelayAndReturn: every result is relayed, an error too
RelayAndReturn_AnyResult ==
    /\ pc = "returned"
    /\ posts = 0
    /\ \E url_set, transport_ok \in BOOLEAN :
        LET relay == post_solver_result_to_make(url_set, transport_ok)
        IN  /\ posts' = posts + relay.posts
            /\ response' =
                    IF relay.raised = "" THEN result
                    ELSE [x \in DOMAIN result \cup {"make_webhook_warning"} |->
                            IF x = "make_webhook_warning" THEN relay.raised
                            ELSE result[x]]
            /\ relay.posts > 0 \/ response' # response
    /\ UNCHANGED intakeVars
    /\ UNCHANGED <<payload, run_id, pc, tasks, solution, result, solverCalls, db,
                   persistCalls, persistResp, store>>

\* solve_by_run_id, lines 16-22: the status-"ok" result is relayed and
\* returned; whether the webhook URL is set and whether the POST gets through
\* is up to the environment
RelayAndReturn ==
    /\ pc = "returned"
    /\ result.status = "ok"
    /\ response = NoResponse
    /\ \E url_set, transport_ok \in BOOLEAN :
        LET relay == post_solver_result_to_make(url_set, transport_ok)
        IN  /\ posts' = posts + relay.posts
            /\ response' = IF relay.raised = "" THEN result
                           ELSE WithWarning(result, relay.raised)
    /\ UNCHANGED intakeVars
    /\ UNCHANGED <<payload, run_id, pc, tasks, solution, result, solverCalls, db,
                   persistCalls, persistResp, store>>

\* receive_ortools_result: the receiver of the webhook hands the result it
\* was posted to process_ortools_result
ProcessResult ==
    /\ pc = "returned"
    /\ result.status = "ok"
    /\ response = result
    /\ posts > 0
    /\ persistCalls < MaxPersistCalls
    /\ db' = StoreRows(db, process_ortools_result_rows(result))
    /\ persistResp' = Append(persistResp, process_ortools_result_response(result))
    /\ persistCalls' = persistCalls + 1
    /\ UNCHANGED intakeVars
    /\ UNCHANGED <<payload, run_id, pc, tasks, solution, result, solverCalls, store,
                   response, posts>>

\* what payload.get gives for a result posted without its run_id, or
\* without its routes
IncompletePayloads(r) ==
    {[r EXCEPT !.run_id = None], [r EXCEPT !.routes = <<>>]}

\* receive_ortools_result: the receiver of the webhook is sent a body that
\* lacks run_id or routes and hands it to process_ortools_result
ProcessIncomplete ==
    /\ pc = "returned"
    /\ result.status = "ok"
    /\ response = result
    /\ posts > 0
    /\ persistCalls < MaxPersistCalls
    /\ \E p \in IncompletePayloads(result) :
        /\ db' = StoreRows(db, process_ortools_result_rows(p))
        /\ persistResp' = Append(persistResp, process_ortools_result_response(p))
    /\ persistCalls' = persistCalls + 1
    /\ UNCHANGED intakeVars
    /\ UNCHANGED <<payload, run_id, pc, tasks, solution, result, solverCalls, store,
                   response, posts>>

Next ==
    \/ BuildPayload
    \/ BuildFails
    \/ ReturnValidationError
    \/ RaiseInValidation
    \/ AssembleModel
    \/ RaiseInCallback
    \/ SolveNoSolution
    \/ SolveAndBuildOutput
    \/ RelayAndReturn
    \/ ProcessResult
    \/ ProcessIncomplete

Spec == Init /\ [][Next]_vars

\* _relative_time_base called for a payload before solve_ortools is
InitTimeBase ==
    /\ store = NoStore
    /\ payload \in TimeBasePayloads
    /\ pc = "call"
    /\ run_id \in RunIds
    /\ tasks = <<>>
    /\ solution = NoSolution
    /\ result = [status |-> "none"]
    /\ solverCalls = 0
    /\ db = <<>>
    /\ persistCalls = 0
    /\ persistResp = <<>>
    /\ response = NoResponse
    /\ posts = 0
    /\ NoIntake

RelativeTimeBase ==
    /\ pc = "call"
    /\ result' = [status |-> "base",
                  base_time |-> _relative_time_base(_parse_tasks(payload),
                                                    payload.buckets)]
    /\ pc' = "start"
    /\ UNCHANGED intakeVars
    /\ UNCHANGED <<payload, run_id, tasks, solution, solverCalls, db, persistCalls,
                   persistResp, store, response, posts>>

NextTimeBase == Next \/ RelativeTimeBase

TimeBaseSpec == (Init \/ InitTimeBase) /\ [][NextTimeBase]_vars

----------------------------------------------------------------------------
(* The run table: get_existing_run, create_new_run, set_status_*,          *)
(* set_meta_json.  Each is one request to the database.                    *)

\* the rows get_existing_run selects
get_existing_run(facility_name, route_date) ==
    SelectSeq(optimization_run,
              LAMBDA r : r.facility_name = facility_name /\ r.route_date = route_date)

\* the meta_json column of a run that has none recorded (SQL NULL)
NullMeta == [null |-> TRUE]

\* the table after create_new_run; the database numbers the rows it inserts
create_new_run(facility_name, route_date) ==
    Append(optimization_run,
           [id |-> Len(optimization_run) + 1, facility_name |-> facility_name,
            route_date |-> route_date, status |-> "pending", meta_json |-> NullMeta])

\* the table after set_status_scraping, set_status_optimizing or
\* set_status_scrape_error
set_status(id, status) ==
    [i \in 1..Len(optimization_run) |->
        IF optimization_run[i].id = id
        THEN [optimization_run[i] EXCEPT !.status = status]
        ELSE optimization_run[i]]

\* the table after set_meta_json
set_meta_json(id, meta) ==
    [i \in 1..Len(optimization_run) |->
        IF optimization_run[i].id = id
        THEN [optimization_run[i] EXCEPT !.meta_json = meta]
        ELSE optimization_run[i]]

----------------------------------------------------------------------------
(* main of hug_scraper, one process per invocation of run_hug_scraper.     *)
(* The endpoint is a synchronous handler that starts the scraper as a      *)
(* subprocess, so two requests run two scrapers side by side; a step of    *)
(* a process is one request to the database or the scrape itself.          *)

Facilities == {"F1", "F2"}

\* what scrape_single_facility returns: a list of rows, here by its length
ScrapedRows == {[i \in 1..n |-> [user_name |-> "u1"]] : n \in 0..(MaxRows - 1)}

InitScraper ==
    /\ payload = NoPayload
    /\ store = NoStore
    /\ pc = "intake"
    /\ run_id \in RunIds
    /\ tasks = <<>>
    /\ solution = NoSolution
    /\ result = [status |-> "none"]
    /\ solverCalls = 0
    /\ db = <<>>
    /\ persistCalls = 0
    /\ persistResp = <<>>
    /\ response = NoResponse
    /\ posts = 0
    /\ optimization_run = <<>>
    /\ routing_tasks = <<>>
    /\ split = [run_id |-> None, calls |-> 0, returned |-> NoResponse]
    /\ scraper \in [1..MaxScrapers ->
                        {[pc |-> "check", facility |-> f, route_date |-> d,
                          run_id |-> None, rows |-> <<>>] :
                            f \in Facilities, d \in {"D1"}}]

\* hug_scraper.main, lines 201-213: a run of the facility and date exists
SkipExisting(p) ==
    /\ scraper[p].pc = "check"
    /\ get_existing_run(scraper[p].facility, scraper[p].route_date) # <<>>
    /\ scraper' = [scraper EXCEPT ![p].pc = "done"]
    /\ UNCHANGED <<solveVars, optimization_run, routing_tasks, split>>

\* hug_scraper.main, lines 201-204: no run of the facility and date exists
FindNoRun(p) ==
    /\ scraper[p].pc = "check"
    /\ get_existing_run(scraper[p].facility, scraper[p].route_date) = <<>>
    /\ scraper' = [scraper EXCEPT ![p].pc = "create"]
    /\ UNCHANGED <<solveVars, optimization_run, routing_tasks, split>>

\* hug_scraper.main, line 216
CreateNewRun(p) ==
    /\ scraper[p].pc = "create"
    /\ optimization_run' = create_new_run(scraper[p].facility, scraper[p].route_date)
    /\ scraper' = [scraper EXCEPT ![p].pc = "created", ![p].run_id = Len(optimization_run) + 1]
    /\ UNCHANGED <<solveVars, routing_tasks, split>>

\* hug_scraper.main, line 218
SetStatusScraping(p) ==
    /\ scraper[p].pc = "created"
    /\ optimization_run' = set_status(scraper[p].run_id, "scraping")
    /\ scraper' = [scraper EXCEPT ![p].pc = "scrape"]
    /\ UNCHANGED <<solveVars, routing_tasks, split>>

\* hug_scraper.main, lines 221-234: the scrape returns its rows
Scrape(p) ==
    /\ scraper[p].pc = "scrape"
    /\ \E rows \in ScrapedRows :
        scraper' = [scraper EXCEPT ![p].pc = "scraped", ![p].rows = rows]
    /\ UNCHANGED <<solveVars, optimization_run, routing_tasks, split>>

\* hug_scraper.main, lines 221-234 and 256-264: the scrape times out or
\* raises, the handler marks the run
ScrapeRaises(p) ==
    /\ scraper[p].pc = "scrape"
    /\ optimization_run' = set_status(scraper[p].run_id, "scrape_error")
    /\ scraper' = [scraper EXCEPT ![p].pc = "done"]
    /\ UNCHANGED <<solveVars, routing_tasks, split>>

\* hug_scraper.main, lines 238-243
SetMetaJson(p) ==
    /\ scraper[p].pc = "scraped"
    /\ optimization_run' =
            set_meta_json(scraper[p].run_id,
                          [facility_name |-> scraper[p].facility,
                           route_date |-> scraper[p].route_date,
                           row_count |-> Len(scraper[p].rows),
                           rows |-> scraper[p].rows])
    /\ scraper' = [scraper EXCEPT ![p].pc = "recorded"]
    /\ UNCHANGED <<solveVars, routing_tasks, split>>

\* hug_scraper.main, lines 247-251: without rows main is through
SetStatusOptimizing(p) ==
    /\ scraper[p].pc = "recorded"
    /\ optimization_run' = set_status(scraper[p].run_id, "optimizing")
    /\ scraper' = [scraper EXCEPT
                        ![p].pc = IF Len(scraper[p].rows) > 0 THEN "insert" ELSE "done"]
    /\ UNCHANGED <<solveVars, routing_tasks, split>>

\* hug_scraper.main, lines 251-254: insert_scraped_data_to_supabase returns
\* (the staging table it fills is read by nothing modelled here)
InsertScrapedData(p) ==
    /\ scraper[p].pc = "insert"
    /\ scraper' = [scraper EXCEPT ![p].pc = "done"]
    /\ UNCHANGED <<solveVars, optimization_run, routing_tasks, split>>

\* hug_scraper.main, lines 251-254 and 261-264: insert_scraped_data_to_supabase
\* raises inside the try block (strptime on a target_time that is no %H:%M,
\* line 180, or the insert of line 191), the handler marks the run
InsertRaises(p) ==
    /\ scraper[p].pc = "insert"
    /\ optimization_run' = set_status(scraper[p].run_id, "scrape_error")
    /\ scraper' = [scraper EXCEPT ![p].pc = "done"]
    /\ UNCHANGED <<solveVars, routing_tasks, split>>

NextScraper ==
    \E p \in 1..MaxScrapers :
        \/ SkipExisting(p)
        \/ FindNoRun(p)
        \/ CreateNewRun(p)
        \/ SetStatusScraping(p)
        \/ Scrape(p)
        \/ ScrapeRaises(p)
        \/ SetMetaJson(p)
        \/ SetStatusOptimizing(p)
        \/ InsertScrapedData(p)
        \/ InsertRaises(p)

ScraperSpec == InitScraper /\ [][NextScraper]_vars

----------------------------------------------------------------------------
(* split_and_create_tasks.  A source row is an entry of meta_json.rows:    *)
(* user_name, depot_name, place, pickup_flag (here: whether the text holds *)
(* the pickup mark) and target_time (minutes after midnight JST, or None   *)
(* for a text that is blank or no HH:MM).  Times of tasks are minutes      *)
(* after midnight UTC of the run's date.                                   *)

\* the date datetime.now gives in JST
Today == "D1"

\* minutes the code assumes when core.travel_times has no usable row
FallbackMinutes == 30

\* JST is nine hours ahead of UTC
parse_time_jst_to_utc(target_time) ==
    IF target_time = None THEN None ELSE target_time - 9 * 60

\* core.users as the lookup of line 60 finds it: the id of a known user
resolve_fk_ids(user_name) ==
    IF user_name = "u1" THEN 1 ELSE IF user_name = "u2" THEN 2 ELSE None

\* lines 180-195: the rows that are not skipped ("ABSENT" is the absence
\* mark of line 181)
RowKept(r) ==
    /\ r.place \notin {"ABSENT", ""}
    /\ parse_time_jst_to_utc(r.target_time) # None
    /\ resolve_fk_ids(r.user_name) # None

\* trip_seq when row i is turned into tasks
trip_seq(rows, i) == Cardinality({j \in 1..i : RowKept(rows[j])})

\* f"user_{user_id}_{base_date:%Y%m%d}_{trip_seq}"
pair_key(user_id, date, seq) == <<"user", user_id, date, seq>>

\* lines 208-226 and 244-257
pick_task(id, r, date, seq) ==
    LET t == parse_time_jst_to_utc(r.target_time)
    IN  [run_id |-> id, task_type |-> "PICK", user_id |-> resolve_fk_ids(r.user_name),
         node_id |-> IF r.pickup_flag THEN r.place ELSE r.depot_name,
         window_start |-> IF r.pickup_flag THEN t - 10 ELSE t - FallbackMinutes,
         window_end |-> IF r.pickup_flag THEN t + 10 ELSE t,
         pair_key |-> pair_key(resolve_fk_ids(r.user_name), date, seq)]

\* lines 213-237 and 240-268
drop_task(id, r, date, seq) ==
    LET t == parse_time_jst_to_utc(r.target_time)
    IN  [run_id |-> id, task_type |-> "DROP", user_id |-> resolve_fk_ids(r.user_name),
         node_id |-> IF r.pickup_flag THEN r.depot_name ELSE r.place,
         window_start |-> IF r.pickup_flag THEN t + FallbackMinutes ELSE t - 10,
         window_end |-> IF r.pickup_flag THEN t + FallbackMinutes + 30 ELSE t + 60,
         pair_key |-> pair_key(resolve_fk_ids(r.user_name), date, seq)]

\* the tasks the loop of lines 173-280 builds from the first n rows, in order
RECURSIVE built_tasks(_, _, _, _)
built_tasks(id, rows, date, n) ==
    IF n = 0 THEN <<>>
    ELSE built_tasks(id, rows, date, n - 1) \o
            (IF RowKept(rows[n])
             THEN <<pick_task(id, rows[n], date, trip_seq(rows, n)),
                    drop_task(id, rows[n], date, trip_seq(rows, n))>>
             ELSE <<>>)

\* lines 158-169.  The query has no ORDER BY, so of several tasks of one
\* user and type any one can come last and be the one the map keeps.
existing_maps(id) ==
    LET mine == {i \in 1..Len(routing_tasks) : routing_tasks[i].run_id = id}
        keys == {<<routing_tasks[i].user_id, routing_tasks[i].task_type>> : i \in mine}
    IN  {m \in [keys -> {routing_tasks[i].id : i \in mine}] :
            \A k \in keys : \E i \in mine :
                /\ routing_tasks[i].id = m[k]
                /\ <<routing_tasks[i].user_id, routing_tasks[i].task_type>> = k}

\* a row of routing_tasks with the columns of a built task (update), and a
\* built task as the row the insert makes of it
WithId(task, id) == [x \in DOMAIN task \cup {"id"} |-> IF x = "id" THEN id ELSE task[x]]

\* lines 270-296: the table, and the value returned, when existing_map is m
write_tasks(built, m) ==
    LET key(t) == <<t.user_id, t.task_type>>
        hits(id) == {j \in 1..Len(built) :
                        key(built[j]) \in DOMAIN m /\ m[key(built[j])] = id}
        inserts == SelectSeq(built, LAMBDA t : key(t) \notin DOMAIN m)
        updated == [i \in 1..Len(routing_tasks) |->
                        IF hits(routing_tasks[i].id) = {} THEN routing_tasks[i]
                        ELSE WithId(built[Max(hits(routing_tasks[i].id))],
                                    routing_tasks[i].id)]
    IN  [table |-> updated \o [k \in 1..Len(inserts) |->
                                    WithId(inserts[k], Len(routing_tasks) + k)],
         returned |-> [created |-> Len(inserts),
                       updated |-> Len(built) - Len(inserts)]]

\* split_and_create_tasks(id) when the query of line 159 yields the map m
split_and_create_tasks(id, m) ==
    LET found == SelectSeq(optimization_run, LAMBDA r : r.id = id)
        meta == found[1].meta_json
        \* lines 137-141: an unreadable route_date ("") falls back to today
        base_date == IF meta.route_date = "" THEN Today ELSE meta.route_date
        unchanged(returned) == [table |-> routing_tasks, returned |-> returned]
    IN  IF found = <<>>
        THEN unchanged([created |-> 0, updated |-> 0, error |-> "run_id not found"])
        ELSE IF meta.rows = <<>>
        THEN unchanged([created |-> 0, updated |-> 0, error |-> "No rows in meta_json"])
        ELSE IF base_date # Today
        THEN unchanged([created |-> 0, updated |-> 0,
                        skipped |-> "Run date is not today"])
        ELSE write_tasks(built_tasks(id, meta.rows, base_date, Len(meta.rows)), m)

\* the rows a scrape can have recorded: two users, a pickup and a ride home,
\* an absent user, a row without a readable time
SourceRows ==
    {[user_name |-> u, depot_name |-> "depot", place |-> c[1], pickup_flag |-> c[2],
      target_time |-> c[3]] :
        u \in {"u1", "u2"},
        c \in {<<"P", TRUE, 10 * 60>>, <<"P", FALSE, 16 * 60>>,
               <<"ABSENT", TRUE, 10 * 60>>, <<"P", TRUE, None>>}}

\* a run whose scrape is recorded, and requests to split it (or a run that
\* does not exist)
InitSplit ==
    /\ payload = NoPayload
    /\ store = NoStore
    /\ pc = "intake"
    /\ run_id \in RunIds
    /\ tasks = <<>>
    /\ solution = NoSolution
    /\ result = [status |-> "none"]
    /\ solverCalls = 0
    /\ db = <<>>
    /\ persistCalls = 0
    /\ persistResp = <<>>
    /\ response = NoResponse
    /\ posts = 0
    /\ scraper = <<>>
    /\ routing_tasks = <<>>
    /\ \E n \in 0..MaxRows, d \in {Today, "D2", ""} :
        \E rows \in [1..n -> SourceRows] :
            optimization_run =
                <<[id |-> 1, facility_name |-> "F1", route_date |-> d,
                   status |-> "optimizing",
                   meta_json |-> [facility_name |-> "F1", route_date |-> d,
                                  row_count |-> n, rows |-> rows]]>>
    /\ split \in {[run_id |-> id, calls |-> 0, returned |-> NoResponse] : id \in {1, 2}}

\* POST /split: split_and_create_tasks runs from its first line to its
\* return
SplitAndCreateTasks ==
    /\ pc = "intake"
    /\ scraper = <<>>
    /\ split.calls < MaxSplitCalls
    /\ \E m \in existing_maps(split.run_id) :
        LET done == split_and_create_tasks(split.run_id, m)
        IN  /\ routing_tasks' = done.table
            /\ split' = [split EXCEPT !.calls = split.calls + 1,
                                      !.returned = done.returned]
    /\ UNCHANGED <<solveVars, optimization_run, scraper>>

SplitSpec == InitSplit /\ [][SplitAndCreateTasks]_vars

----------------------------------------------------------------------------
(* Vocabulary of the properties *)

Ok == pc = "returned" /\ result.status = "ok"

\* the stops of the returned routes, as (route, position) places
StopPlaces ==
    UNION {{<<k, j>> : j \in 1..Len(result.routes[k].stops)} :
                k \in 1..Len(result.routes)}

StopAt(place) == result.routes[place[1]].stops[place[2]]

TaskStopPlaces(task_id) ==
    {pl \in StopPlaces :
        StopAt(pl).event_type = "TASK" /\ StopAt(pl).task_id = task_id}

\* the vehicle (position in the payload's list) that a returned route is of
VehicleOfRoute(k) ==
    CHOOSE v \in 1..num_vehicles : vehicles[v].vehicle_id = result.routes[k].vehicle_id

RawType(i) == upper(payload.tasks[i].task_type)

RawIndices == 1..Len(payload.tasks)

----------------------------------------------------------------------------
(* C1: for every payload, the result has status "error" or every task      *)
(* listed in the payload is exactly one TASK stop of exactly one route.    *)
C1_EveryListedTaskServedOnce ==
    Ok => \A i \in RawIndices :
            Cardinality(TaskStopPlaces(payload.tasks[i].task_id)) = 1

----------------------------------------------------------------------------
(* C2: in every status-"ok" result the passengers value of every stop      *)
(* (DEPART, TASK, ARRIVE) is at least 0.                                   *)
C2_PassengersNonNegative ==
    Ok => \A pl \in StopPlaces : StopAt(pl).passengers >= 0

\* a returned route on which a passenger was dropped off again
C2_Witness ==
    /\ Ok
    /\ \E pl \in StopPlaces :
        /\ StopAt(pl).event_type = "TASK"
        /\ pl[2] > 2
        /\ StopAt(pl).passengers = 0

----------------------------------------------------------------------------
(* C3 as stated: in every status-"ok" result, for every pair key that has  *)
(* both a PICK and a DROP task, the PICK and the DROP are TASK stops of    *)
(* one route and the PICK's sequence is less than the DROP's.              *)
PickBeforeDrop(pick_id, drop_id) ==
    \E p \in TaskStopPlaces(pick_id), d \in TaskStopPlaces(drop_id) :
        /\ p[1] = d[1]
        /\ StopAt(p).sequence < StopAt(d).sequence

WithKeyType(key, tt) ==
    {i \in 1..Len(tasks) : tasks[i].pair_key = key /\ tasks[i].task_type = tt}

PairKeys == {tasks[i].pair_key : i \in 1..Len(tasks)} \ {""}

ExactPair(key) ==
    /\ Cardinality(WithKeyType(key, "PICK")) = 1
    /\ Cardinality(WithKeyType(key, "DROP")) = 1

----------------------------------------------------------------------------
(* C4: persisting a result is idempotent: after process_ortools_result has *)
(* been called again with the same payload, the number of rows stored for  *)
(* the run_id equals the number after the first call.                      *)
RowsOfRun(rid) == Cardinality({i \in 1..Len(db) : db[i].run_id = rid})

C4_PersistIdempotent ==
    (persistCalls >= 1 /\ persistResp[1].status = "ok")
        => RowsOfRun(result.run_id) = persistResp[1].inserted

----------------------------------------------------------------------------
(* C5: for every stop of every status-"ok" result, arrival_at equals       *)
(* departure_at and both equal base_time plus the Time cumul the solution  *)
(* gives the node, so arrival_at - base_time is that cumul.                *)
C5_ArrivalIsBasePlusCumul ==
    Ok => \A pl \in StopPlaces :
            LET stop == StopAt(pl)
                cumul == solution.times[VehicleOfRoute(pl[1])][pl[2]]
            IN  /\ stop.arrival_at = stop.departure_at
                /\ stop.arrival_at = result.base_time + cumul
                /\ stop.arrival_at - result.base_time = cumul

\* a stop whose cumul is not 0 in a result whose base_time is not 0
C5_Witness ==
    /\ Ok
    /\ result.base_time > 0
    /\ \E pl \in StopPlaces : solution.times[VehicleOfRoute(pl[1])][pl[2]] > 0

----------------------------------------------------------------------------
(* C6: in every status-"ok" result each TASK stop's arrival_at lies within *)
(* the absolute window of its own task, also when two tasks share one      *)
(* physical node_index and have different windows.                         *)
C6_TaskStopWithinOwnWindow ==
    Ok => \A pl \in StopPlaces :
            StopAt(pl).event_type = "TASK" =>
                \A i \in RawIndices :
                    (payload.tasks[i].task_id = StopAt(pl).task_id
                        /\ HasWindow(payload.tasks[i]))
                    => /\ payload.tasks[i].window[1] <= StopAt(pl).arrival_at
                       /\ StopAt(pl).arrival_at <= payload.tasks[i].window[2]

\* two served tasks at one physical node whose windows do not overlap
C6_Witness ==
    /\ Ok
    /\ \E i, j \in 1..Len(tasks) :
        /\ tasks[i].node_index = tasks[j].node_index
        /\ tasks[i].window_end < tasks[j].window_start
        /\ TaskStopPlaces(tasks[i].task_id) # {}
        /\ TaskStopPlaces(tasks[j].task_id) # {}

----------------------------------------------------------------------------
(* C7: a raw task whose window misses a bound is rejected and reported:    *)
(* with such a task in the payload, solve_ortools does not produce a       *)
(* status-"ok" result.                                                     *)
C7_WindowlessTaskReported ==
    (pc = "returned" /\ \E i \in RawIndices : ~HasWindow(payload.tasks[i]))
        => result.status # "ok"

----------------------------------------------------------------------------
----------------------------------------------------------------------------
(* C9: with a time matrix that is empty or not square, or a vehicle whose  *)
(* start_index or end_index is outside [0, n), or a task whose node_index  *)
(* is outside [0, n), solve_ortools returns status "error": the engine is  *)
(* never invoked and there are no routes.                                  *)
MatrixMalformed ==
    \/ payload.time_matrix = <<>>
    \/ \E r \in 1..Len(payload.time_matrix) :
            Len(payload.time_matrix[r]) # Len(payload.time_matrix)

IndexOutside(x) == x < 0 \/ x >= Len(payload.time_matrix)

C9_BadIndicesReturnError ==
    (\/ MatrixMalformed
     \/ \E v \in 1..Len(payload.vehicles) :
            IndexOutside(payload.vehicles[v].start_index)
            \/ IndexOutside(payload.vehicles[v].end_index)
     \/ \E i \in RawIndices : IndexOutside(payload.tasks[i].node_index))
        => /\ pc # "model"
           /\ solverCalls = 0
           /\ pc = "returned" => result.status = "error"

----------------------------------------------------------------------------
(* C10: if a user has more than one PICK or more than one DROP among its   *)
(* tasks and not all of that user's tasks carry a non-empty pair_key,      *)
(* solve_ortools returns a status-"error" result before any solve attempt. *)
(* Stated for payloads in which no earlier check fails.                    *)
RawCount(uid, tt) ==
    Cardinality({i \in RawIndices :
                    payload.tasks[i].user_id = uid /\ RawType(i) = tt})

RawAmbiguous ==
    \E i \in RawIndices :
        /\ (RawCount(payload.tasks[i].user_id, "PICK") > 1
            \/ RawCount(payload.tasks[i].user_id, "DROP") > 1)
        /\ \E j \in RawIndices :
            /\ payload.tasks[j].user_id = payload.tasks[i].user_id
            /\ payload.tasks[j].pair_key = ""

EarlierChecksPass ==
    /\ ~MatrixMalformed
    /\ payload.vehicles # <<>>
    /\ \A v \in 1..Len(payload.vehicles) :
            ~IndexOutside(payload.vehicles[v].start_index)
            /\ ~IndexOutside(payload.vehicles[v].end_index)
    /\ \A i \in RawIndices :
            ~IndexOutside(payload.tasks[i].node_index)
            /\ RawType(i) \in {"PICK", "DROP"}

C10_AmbiguousUserReturnsError ==
    (EarlierChecksPass /\ RawAmbiguous)
        => /\ pc # "model"
           /\ solverCalls = 0
           /\ pc = "returned" => result.status = "error"

----------------------------------------------------------------------------
(* C11: for the paired-trip scenario (one vehicle of capacity 4 at node 0, *)
(* PICK at node 1, DROP at node 2 on one pair key), every solution of the  *)
(* assembled constraints is reconstructed as exactly one route with the    *)
(* stops DEPART(node 0), TASK(node 1, passengers 1), TASK(node 2,          *)
(* passengers 0), ARRIVE(node 0), in this order.                           *)
StopIs(stop, event_type, node_index) ==
    stop.event_type = event_type /\ stop.node_index = node_index

C11_ScenarioRoute ==
    (payload = ScenarioPayload /\ pc # "start" /\ pc # "model" /\ solution # NoSolution)
        => /\ result.status = "ok"
           /\ Len(result.routes) = 1
           /\ LET stops == result.routes[1].stops
              IN  /\ Len(stops) = 4
                  /\ StopIs(stops[1], "DEPART", 0)
                  /\ StopIs(stops[2], "TASK", 1) /\ stops[2].passengers = 1
                  /\ StopIs(stops[3], "TASK", 2) /\ stops[3].passengers = 0
                  /\ StopIs(stops[4], "ARRIVE", 0)
                  /\ \A j \in 1..4 : stops[j].sequence = j - 1

\* the scenario solved, the drop-off reached later than the pickup
C11_Witness ==
    /\ payload = ScenarioPayload
    /\ result.status = "ok"
    /\ result.routes[1].stops[2].arrival_at < result.routes[1].stops[3].arrival_at

----------------------------------------------------------------------------
(* C12: in every status-"ok" result the passengers value of every stop is  *)
(* at most the seat capacity of the route's vehicle; a single vehicle of   *)
(* capacity 1 with two unpaired PICK tasks gets the status-"error" result  *)
(* "no feasible solution", never a route.                                  *)
SeatsOfRoute(k) == vehicles[VehicleOfRoute(k)].capacity

TwoPicksOneSeat ==
    /\ num_vehicles = 1
    /\ vehicles[1].capacity = 1
    /\ Len(tasks) = 2
    /\ \A i \in 1..2 : tasks[i].task_type = "PICK" /\ tasks[i].pair_key = ""

C12_PassengersWithinCapacity ==
    /\ Ok => \A pl \in StopPlaces : StopAt(pl).passengers <= SeatsOfRoute(pl[1])
    /\ (solverCalls > 0 /\ TwoPicksOneSeat)
            => result = ErrorResult("no feasible solution")

\* a full vehicle on a route that picks up more passengers than it has seats
C12_Witness ==
    /\ Ok
    /\ \E pl \in StopPlaces :
        /\ StopAt(pl).passengers = SeatsOfRoute(pl[1])
        /\ Cardinality({i \in 1..Len(tasks) : tasks[i].task_type = "PICK"})
                > SeatsOfRoute(pl[1])

----------------------------------------------------------------------------
(* C13: when the solver returns no solution, solve_ortools returns exactly *)
(* {status: "error", message: "no feasible solution"}, without routes, and *)
(* the solver has been invoked exactly once: there is no retry.            *)
SolverFoundNothing == solverCalls > 0 /\ solution = NoSolution

C13_NoSolutionIsTerminal ==
    /\ solverCalls <= 1
    /\ SolverFoundNothing
        => /\ pc # "model"
           /\ solverCalls = 1
           /\ result = [status |-> "error", message |-> "no feasible solution"]
           /\ "routes" \notin DOMAIN result

\* the solver found nothing for a model that has no solution
C13_Witness ==
    /\ SolverFoundNothing
    /\ pc # "model"
    /\ Solutions = {}

----------------------------------------------------------------------------
(* C14 as stated: a failed relay raises the timeout failure, which the     *)
(* endpoint attaches to the result as make_webhook_warning, the result     *)
(* keeping status "ok" and its routes; exactly one POST is attempted per   *)
(* successful solve.                                                       *)
Relayed == result.status = "ok" /\ response # NoResponse

HasWarning == "make_webhook_warning" \in DOMAIN response

ResultKept ==
    /\ response.status = "ok"
    /\ response.routes = result.routes
    /\ response.run_id = result.run_id
    /\ response.base_time = result.base_time
    /\ DOMAIN response \subseteq (DOMAIN result \cup {"make_webhook_warning"})

----------------------------------------------------------------------------
(* C15: every fatal condition of the build -> solve pipeline (a task_type  *)
(* that is no PICK or DROP, a time matrix that is unavailable or reported  *)
(* as "miss", a None travel duration, out-of-range indices, infeasibility) *)
(* ends with a returned {status: "error", message} value: no exception     *)
(* leaves build_ortools_payload or solve_ortools.                          *)
TimeMatrixUnavailable ==
    /\ store # NoStore
    /\ store.run_found
    /\ store.tasks # <<>>
    /\ build_time_matrix(store).status # "ok"

PayloadLacksDuration ==
    \E i \in 1..Len(payload.time_matrix) :
        \E j \in 1..Len(payload.time_matrix[i]) : payload.time_matrix[i][j] = None

FatalCondition ==
    \/ TimeMatrixUnavailable
    \/ \E i \in RawIndices : RawType(i) \notin {"PICK", "DROP"}
    \/ PayloadLacksDuration
    \/ MatrixMalformed
    \/ \E v \in 1..Len(payload.vehicles) :
            IndexOutside(payload.vehicles[v].start_index)
            \/ IndexOutside(payload.vehicles[v].end_index)
    \/ \E i \in RawIndices : IndexOutside(payload.tasks[i].node_index)
    \/ SolverFoundNothing

C15_FatalConditionsReturnError ==
    (pc \in {"unbuilt", "returned"} /\ FatalCondition)
        => /\ response.status = "error"
           /\ "message" \in DOMAIN response

----------------------------------------------------------------------------
(* C16: the build -> solve -> reconstruct -> persist pipeline of a run is  *)
(* complete before the solve request returns: whenever solve_by_run_id has *)
(* returned a status-"ok" result, the routing results of the run are       *)
(* stored.                                                                 *)
C16_StoredBeforeReturn ==
    response.status = "ok" => RowsOfRun(response.run_id) > 0

----------------------------------------------------------------------------
(* C17: the routing-node layout is deterministic: the depot nodes are the  *)
(* distinct physical indices used as a vehicle's start or end, numbered    *)
(* 0..k-1 in ascending physical-index order; the i-th task in input order  *)
(* gets routing node k+i; there are k + number of tasks nodes, so tasks    *)
(* sharing a node_index are not merged; routing_to_phys maps each routing  *)
(* node to its physical index.                                             *)
ModelBuilt == pc = "model" \/ solverCalls > 0

DepotIndices ==
    {vehicles[v].start_index : v \in 1..num_vehicles}
        \cup {vehicles[v].end_index : v \in 1..num_vehicles}

C17_RoutingNodeLayout ==
    ModelBuilt =>
        LET k == Cardinality(DepotIndices)
        IN  /\ depot_count = k
            /\ Range(depot_phys_nodes) = DepotIndices
            /\ \A i, j \in 1..k : i < j => depot_phys_nodes[i] < depot_phys_nodes[j]
            /\ \A i \in 1..k :
                    /\ depot_rnode_of_phys[depot_phys_nodes[i]] = i - 1
                    /\ routing_to_phys[i - 1] = depot_phys_nodes[i]
            /\ \A v \in 1..num_vehicles :
                    /\ routing_to_phys[starts[v]] = vehicles[v].start_index
                    /\ routing_to_phys[ends[v]] = vehicles[v].end_index
            /\ total_nodes = k + Len(tasks)
            /\ DOMAIN routing_to_phys = 0..(k + Len(tasks) - 1)
            /\ \A i \in 0..(Len(tasks) - 1) :
                    /\ routing_to_phys[k + i] = tasks[i + 1].node_index
                    /\ (Cardinality({j \in 1..Len(tasks) :
                                        tasks[j].task_id = tasks[i + 1].task_id}) = 1)
                            => task_rnode_of_task_id[tasks[i + 1].task_id] = k + i

\* a vehicle that starts at a higher index than it ends at, and two tasks
\* at one physical node
C17_Witness ==
    /\ ModelBuilt
    /\ \E v \in 1..num_vehicles : vehicles[v].start_index > vehicles[v].end_index
    /\ \E i, j \in 1..Len(tasks) : i # j /\ tasks[i].node_index = tasks[j].node_index

----------------------------------------------------------------------------
(* C18: the task_id <-> routing-node tables are a bijection over the tasks *)
(* of the build: every task has its own routing node, every task routing   *)
(* node k..k+len(tasks)-1 maps back to one task_id, and the two tables are *)
(* mutual inverses, for every task list that validation accepts, lists in  *)
(* which two records carry one task_id included.                           *)
C18_LookupTablesBijective ==
    ModelBuilt =>
        /\ DOMAIN task_id_of_rnode = TaskRNodes
        /\ DOMAIN task_by_rnode = TaskRNodes
        /\ \A i \in 1..Len(tasks) :
                /\ task_rnode_of_task_id[tasks[i].task_id] = depot_count + i - 1
                /\ task_id_of_rnode[depot_count + i - 1] = tasks[i].task_id
                /\ task_by_rnode[depot_count + i - 1] = tasks[i]
        /\ \A id \in DOMAIN task_rnode_of_task_id :
                task_id_of_rnode[task_rnode_of_task_id[id]] = id

----------------------------------------------------------------------------
(* C19: _build_pairs_by_pair_key yields a (pickup node, drop node) pair    *)
(* for a pair key if and only if the tasks carrying the key are exactly    *)
(* one PICK and exactly one DROP; any other key yields no pair and no      *)
(* error, its tasks being served as unpaired stops.  Stated for task lists *)
(* whose task_ids are all different.                                       *)
RNodeOfIndex(i) == depot_count + i - 1

UniqueTaskIds == Cardinality(TaskIds) = Len(tasks)

ExactPairsOfKeys ==
    {<<RNodeOfIndex(CHOOSE p \in WithKeyType(key, "PICK") : TRUE),
       RNodeOfIndex(CHOOSE d \in WithKeyType(key, "DROP") : TRUE)>> :
        key \in {k \in PairKeys :
                    /\ ExactPair(k)
                    /\ \A i \in 1..Len(tasks) :
                            tasks[i].pair_key = k => tasks[i].task_type \in {"PICK", "DROP"}}}

C19_PairIffExactlyOneOfEach ==
    (ModelBuilt /\ UniqueTaskIds) => pairs = ExactPairsOfKeys

----------------------------------------------------------------------------
(* C20: the run-wide time base is the least window_start of the tasks      *)
(* minus 3600 seconds when there is a task, otherwise the earliest         *)
(* travel-time bucket when buckets are given, otherwise 0; the base_time   *)
(* of every status-"ok" result is min(window_start) - 3600 of the tasks    *)
(* that were solved.                                                       *)
IsLeastOf(x, S) == x \in S /\ \A y \in S : x <= y

IsTimeBaseOf(b, ts, buckets) ==
    IF ts # <<>>
    THEN IsLeastOf(b + BaseBuffer, {ts[i].window_start : i \in 1..Len(ts)})
    ELSE IF buckets # <<>> THEN IsLeastOf(b, Range(buckets))
    ELSE b = 0

----------------------------------------------------------------------------
(* C21: every route of a status-"ok" result is DEPART, one or more TASK    *)
(* stops, ARRIVE: one DEPART at sequence 0 at the vehicle's start node,    *)
(* one ARRIVE as the last stop at the vehicle's end node, the sequence     *)
(* numbers 0, 1, ..., n without gaps; a vehicle that serves no task has no *)
(* route in the result.                                                    *)
RoutesOfVehicle(v) ==
    {k \in 1..Len(result.routes) : result.routes[k].vehicle_id = vehicles[v].vehicle_id}

C21_RouteShape ==
    Ok =>
        /\ \A k \in 1..Len(result.routes) :
            LET stops == result.routes[k].stops
                n == Len(stops)
                v == VehicleOfRoute(k)
            IN  /\ n >= 3
                /\ stops[1].event_type = "DEPART"
                /\ stops[1].node_index = vehicles[v].start_index
                /\ stops[n].event_type = "ARRIVE"
                /\ stops[n].node_index = vehicles[v].end_index
                /\ \A j \in 2..(n - 1) : stops[j].event_type = "TASK"
                /\ \A j \in 1..n : stops[j].sequence = j - 1
        /\ \A v \in 1..num_vehicles :
                Cardinality(RoutesOfVehicle(v)) = IF solution.routes[v] = <<>> THEN 0 ELSE 1

\* a fleet with a vehicle that serves no task next to a route of several tasks
C21_Witness ==
    /\ Ok
    /\ \E v \in 1..num_vehicles : solution.routes[v] = <<>>
    /\ \E k \in 1..Len(result.routes) : Len(result.routes[k].stops) > 3

----------------------------------------------------------------------------
(* C22: in every returned route the DEPART stop's task_id is the task_id   *)
(* of the first TASK stop, the ARRIVE stop's task_id and passengers are    *)
(* those of the last TASK stop, and no stop has a null task_id.            *)
C22_AnchorsCarryTaskIds ==
    Ok => \A k \in 1..Len(result.routes) :
            LET stops == result.routes[k].stops
                n == Len(stops)
            IN  /\ stops[1].task_id = stops[2].task_id
                /\ stops[n].task_id = stops[n - 1].task_id
                /\ stops[n].passengers = stops[n - 1].passengers
                /\ \A j \in 1..n : stops[j].task_id # None

\* a route whose first and last TASK stops are of different tasks
C22_Witness ==
    /\ Ok
    /\ \E k \in 1..Len(result.routes) :
        LET stops == result.routes[k].stops
        IN  /\ Len(stops) > 3
            /\ stops[1].task_id # stops[Len(stops)].task_id
            /\ stops[Len(stops)].passengers > 0

----------------------------------------------------------------------------
(* C23: the passengers value of the j-th TASK stop of a route is the       *)
(* number of PICK tasks minus the number of DROP tasks among the first j   *)
(* TASK stops of that route, the DEPART stop's passengers is 0, and the    *)
(* counter of one vehicle does not carry over to another vehicle's route.  *)
TypeOfTaskId(task_id) ==
    tasks[CHOOSE i \in 1..Len(tasks) : tasks[i].task_id = task_id].task_type

\* positions 2..j of a route's stop list hold its first j - 1 TASK stops
TaskStopsOfType(stops, j, tt) ==
    Cardinality({i \in 2..j : TypeOfTaskId(stops[i].task_id) = tt})

C23_PassengersReplayed ==
    Ok => \A k \in 1..Len(result.routes) :
            LET stops == result.routes[k].stops
            IN  /\ stops[1].passengers = 0
                /\ \A j \in 2..(Len(stops) - 1) :
                        stops[j].passengers =
                            TaskStopsOfType(stops, j, "PICK")
                                - TaskStopsOfType(stops, j, "DROP")

\* two routes: the first ends with a passenger aboard, the second drops its
\* passenger off again
C23_Witness ==
    /\ Ok
    /\ Len(result.routes) > 1
    /\ result.routes[1].stops[Len(result.routes[1].stops)].passengers > 0
    /\ \E j \in 2..Len(result.routes[2].stops) :
            /\ result.routes[2].stops[j].event_type = "TASK"
            /\ result.routes[2].stops[j].passengers = 0

----------------------------------------------------------------------------
(* C24: along every returned route arrival_at is non-decreasing in         *)
(* sequence order, and the arrival_at values of two consecutive stops      *)
(* differ by at least the travel time between their physical nodes and by  *)
(* at most that travel time plus 6 hours of waiting.                       *)
TravelBetween(s1, s2) == time_matrix[s1.node_index + 1][s2.node_index + 1]

C24_ArrivalsFollowTravelTimes ==
    Ok => \A k \in 1..Len(result.routes) :
            LET stops == result.routes[k].stops
            IN  \A j \in 1..(Len(stops) - 1) :
                    LET d == stops[j + 1].arrival_at - stops[j].arrival_at
                        tr == TravelBetween(stops[j], stops[j + 1])
                    IN  /\ d >= 0
                        /\ d >= tr
                        /\ d <= tr + 6 * TicksPerHour

\* a vehicle waits the full six hours between two task stops
C24_Witness ==
    /\ Ok
    /\ \E k \in 1..Len(result.routes) :
            LET stops == result.routes[k].stops
            IN  \E j \in 2..(Len(stops) - 2) :
                    stops[j + 1].arrival_at - stops[j].arrival_at
                        = TravelBetween(stops[j], stops[j + 1]) + 6 * TicksPerHour

----------------------------------------------------------------------------
(* C25: every arrival_at of a status-"ok" result, the DEPART and ARRIVE    *)
(* stops included, lies between base_time, which is the earliest           *)
(* window_start minus one hour, and the latest window_end plus one hour.   *)
AllStops ==
    UNION {Range(result.routes[k].stops) : k \in 1..Len(result.routes)}

LatestWindowEnd == Max({tasks[i].window_end : i \in 1..Len(tasks)})

EarliestWindowStart == Min({tasks[i].window_start : i \in 1..Len(tasks)})

C25_ArrivalsWithinHorizon ==
    Ok => \A s \in AllStops :
            /\ result.base_time = EarliestWindowStart - TicksPerHour
            /\ result.base_time <= s.arrival_at
            /\ s.arrival_at <= LatestWindowEnd + TicksPerHour

\* a route that leaves at base_time and one that returns at the last moment
C25_Witness ==
    /\ Ok
    /\ \E s \in AllStops : s.event_type = "DEPART" /\ s.arrival_at = result.base_time
    /\ \E s \in AllStops :
            s.event_type = "ARRIVE" /\ s.arrival_at = LatestWindowEnd + TicksPerHour

----------------------------------------------------------------------------
(* C26: solve_by_run_id runs build, solve and relay in this order.  The    *)
(* solver is invoked only after the build returned status "ok", the relay  *)
(* is attempted only after the solve returned status "ok" and never for an *)
(* error result, and the outcome of the relay changes neither the status   *)
(* nor the routes reported for the solve.                                  *)
BuiltOk ==
    /\ build_ortools_payload(store).status = "ok"
    /\ payload = build_ortools_payload(store).payload

RelayAttempted == posts > 0 \/ HasWarning

C26_BuildSolveRelayInOrder ==
    /\ (store # NoStore /\ pc \notin {"request", "unbuilt"}) => BuiltOk
    /\ pc \in {"request", "unbuilt"} => solverCalls = 0 /\ ~RelayAttempted
    /\ pc = "unbuilt" => response = build_ortools_payload(store) /\ response.status # "ok"
    /\ solverCalls > 0 => pc = "returned"
    /\ RelayAttempted => pc = "returned" /\ result.status = "ok" /\ solverCalls = 1
    /\ (pc = "returned" /\ result.status # "ok") => response = result
    /\ Relayed => response.status = result.status /\ response.routes = result.routes

\* a stored run was built, solved and relayed, and the relay failed
C26_Witness ==
    /\ store # NoStore
    /\ Relayed
    /\ solverCalls = 1
    /\ posts = 1
    /\ HasWarning

----------------------------------------------------------------------------
(* C27: for a status-"ok" result of solve_ortools with a run_id, a call of *)
(* process_ortools_result stores one row per stop of every route, DEPART,  *)
(* TASK and ARRIVE alike, and reports inserted = total number of stops;    *)
(* when run_id or routes is missing it returns status "error" and stores   *)
(* nothing.                                                                *)
StopList ==
    LET RECURSIVE Upto(_)
        Upto(k) == IF k = 0 THEN <<>>
                   ELSE Upto(k - 1) \o
                        [j \in 1..Len(result.routes[k].stops) |->
                            [vehicle_id |-> result.routes[k].vehicle_id,
                             stop |-> result.routes[k].stops[j]]]
    IN  Upto(Len(result.routes))

RowIsOf(row, e) ==
    /\ row.run_id = result.run_id
    /\ row.vehicle_id = e.vehicle_id
    /\ row.task_id = e.stop.task_id
    /\ row.sequence = e.stop.sequence
    /\ row.event_type = e.stop.event_type
    /\ row.arrival_at = e.stop.arrival_at
    /\ row.passengers = e.stop.passengers

RowsAdded == SubSeq(db', Len(db) + 1, Len(db'))

LastResponse == persistResp'[Len(persistResp')]

----------------------------------------------------------------------------
(* C29: at most one optimization_run exists per (facility_name,            *)
(* route_date) after any interleaving of scraper invocations.              *)
C29_OneRunPerFacilityAndDate ==
    \A i, j \in 1..Len(optimization_run) :
        (/\ optimization_run[i].facility_name = optimization_run[j].facility_name
         /\ optimization_run[i].route_date = optimization_run[j].route_date)
            => i = j

----------------------------------------------------------------------------
(* C30: a run's status only moves pending -> scraping -> optimizing or     *)
(* scrape_error; both end statuses are final, and a run in scrape_error    *)
(* has no scraped rows recorded in meta_json.                              *)
StatusMoves ==
    {<<"pending", "scraping">>, <<"scraping", "optimizing">>,
     <<"scraping", "scrape_error">>}

C30_StatusOnlyMovesForward ==
    [][/\ \A i \in 1..Len(optimization_run) :
            \/ optimization_run'[i].status = optimization_run[i].status
            \/ <<optimization_run[i].status, optimization_run'[i].status>> \in StatusMoves
       /\ \A i \in 1..Len(optimization_run') :
            optimization_run'[i].status = "scrape_error"
                => optimization_run'[i].meta_json = NullMeta]_vars

----------------------------------------------------------------------------
(* C28: after any number of split_and_create_tasks calls for one run with  *)
(* unchanged source rows, routing_tasks of the run holds exactly one PICK  *)
(* and one DROP per valid source row, both with the row's pair_key, which  *)
(* no other task carries; a repeated call inserts no duplicates, also when *)
(* one user has more than one trip row.                                    *)
SplitDone == split.calls >= 1 /\ DOMAIN split.returned = {"created", "updated"}

SplitRows == optimization_run[1].meta_json.rows

TasksWith(key, task_type) ==
    {i \in 1..Len(routing_tasks) :
        /\ routing_tasks[i].run_id = split.run_id
        /\ routing_tasks[i].pair_key = key
        /\ routing_tasks[i].task_type = task_type}

C28_OnePickOneDropPerRow ==
    SplitDone =>
        /\ \A i \in 1..Len(SplitRows) :
            RowKept(SplitRows[i]) =>
                LET key == pair_key(resolve_fk_ids(SplitRows[i].user_name), Today,
                                    trip_seq(SplitRows, i))
                IN  /\ Cardinality(TasksWith(key, "PICK")) = 1
                    /\ Cardinality(TasksWith(key, "DROP")) = 1
        /\ Len(routing_tasks) = 2 * trip_seq(SplitRows, Len(SplitRows))

====
